---------------------------- MODULE Spec2Model ----------------------------
(***************************************************************************)
(* A model of sports_mcp_server/main.py: the registry loader that runs at  *)
(* import time, the three read handlers (list, describe, query), the lazy  *)
(* connection pool, and the two statements a query sends to the store.     *)
(*                                                                         *)
(* Python values are written as follows.  None and Optional[x] are <<>>    *)
(* and <<x>>.  A dict (a JSON payload, a row) is a record whose DOMAIN is  *)
(* the set of keys present.  A list is a sequence.  An exception leaving a *)
(* handler is a response whose status is the HTTP status FastAPI answers.  *)
(***************************************************************************)
EXTENDS Integers, Sequences, FiniteSets, TLC

VARIABLES
    proc,       \* "start" | "serving" | "crashed": the process around line 129
    dir,        \* CURATED_REGISTRY_DIR as found on disk: [exists, files]
    DATASETS,   \* the module global of line 129 (dataset_id -> DatasetEntry)
    POOL,       \* the module global of line 32: None or Some(pool id)
    pools,      \* every ConnectionPool constructed so far: id -> idle connections
    thr,        \* per worker thread: the locals of the handler it is running
    session,    \* the paging client: the query it repeats, or None
    acc         \* the paging client: what it has collected so far

vars == <<proc, dir, DATASETS, POOL, pools, thr, session, acc>>

(***************************************************************************)
(* Bounds of the model.                                                    *)
(***************************************************************************)
MaxLimit  == 3      \* requests ask for 0..MaxLimit rows
MaxOffset == 4      \* requests ask for offsets -1..MaxOffset
PoolSize  == 1      \* connections a ConnectionPool hands out
MaxFiles  == 2      \* descriptor files in the registry directory under test

(***************************************************************************)
(* Program constants.                                                      *)
(***************************************************************************)
LimitMin == 1
LimitMax == 500
OffsetMin == 0

None == <<>>
Some(x) == <<x>>

Threads == {1, 2}

Min(a, b) == IF a < b THEN a ELSE b

Range(s) == {s[i] : i \in 1..Len(s)}

RECURSIVE SeqFilterIn(_, _)
\* [x for x in s if x in S]
SeqFilterIn(s, S) ==
    IF s = <<>> THEN <<>>
    ELSE IF Head(s) \in S THEN <<Head(s)>> \o SeqFilterIn(Tail(s), S)
         ELSE SeqFilterIn(Tail(s), S)

RECURSIVE SeqFilterNotIn(_, _)
\* [x for x in s if x not in S]
SeqFilterNotIn(s, S) ==
    IF s = <<>> THEN <<>>
    ELSE IF Head(s) \notin S THEN <<Head(s)>> \o SeqFilterNotIn(Tail(s), S)
         ELSE SeqFilterNotIn(Tail(s), S)

(***************************************************************************)
(* JSON, as json.loads reads a descriptor file (line 87).  A value carries *)
(* its type: the loader and pydantic tell null, strings, numbers, lists    *)
(* and objects apart.                                                      *)
(***************************************************************************)
\* Each type keeps its value in a field of its own.
JNull    == [t |-> "null"]
JStr(s)  == [t |-> "str", str |-> s]
JInt(n)  == [t |-> "int", int |-> n]
JBool(b) == [t |-> "bool", bool |-> b]
JList(s) == [t |-> "list", list |-> s]
JObj(o)  == [t |-> "obj", obj |-> o]

\* The text of a file that is no JSON document: json.loads raises.
BadJson == [t |-> "invalid"]

\* bool(value), as `not value` uses it.
Truthy(j) ==
    CASE j.t = "null" -> FALSE
      [] j.t = "str"  -> j.str # ""
      [] j.t = "int"  -> j.int # 0
      [] j.t = "bool" -> j.bool
      [] j.t = "list" -> j.list # <<>>
      [] j.t = "obj"  -> DOMAIN j.obj # {}

\* payload.get(key)
Get(payload, key) == IF key \in DOMAIN payload THEN payload[key] ELSE JNull

\* payload.get(key, default)
GetOr(payload, key, default) ==
    IF key \in DOMAIN payload THEN payload[key] ELSE default

(***************************************************************************)
(* How pydantic reads a string given for an int field (sample_size, line   *)
(* 48).  The string is trimmed, a sign is taken off, leading zeros, a      *)
(* fraction of zeros and single underscores between digits are removed,    *)
(* and what is left has to be a decimal number: "+4", " 04 ", "4.0" and    *)
(* "1_0" are read as 4, 4, 4 and 10; "4.", "4.5", "1__0" and "" are not    *)
(* read.  A string is taken apart with Head, Tail and SubSeq; the value   *)
(* of a number is computed within the integers of the model checker.      *)
(***************************************************************************)
\* The white space that is trimmed: the characters Unicode calls white
\* space.  After the space, tab, line feed, carriage return and form feed
\* come the vertical tab (U+000B), the next line character (U+0085) and
\* the no-break space (U+00A0), written as themselves.  The others lie
\* above U+00FF (U+1680, U+2000 to U+200A, U+2028, U+2029, U+202F, U+205F,
\* U+3000): no string of a module can hold them.
WhiteSpace ==
    {" ", "\t", "\n", "\r", "\f",
     "", "", " "}

NonZeroDigits == {"1", "2", "3", "4", "5", "6", "7", "8", "9"}
Digits == {"0"} \cup NonZeroDigits

DigitValue(c) == CHOOSE d \in 0..9 : ToString(d) = c

\* s[i], s[i:] and s[:i] of a string, counting from 1
CharAt(s, i) == SubSeq(s, i, i)
From(s, i) == SubSeq(s, i, Len(s))
Upto(s, i) == SubSeq(s, 1, i)

StartsWith(s, c) == s # "" /\ Head(s) = c
EndsWith(s, c) == s # "" /\ CharAt(s, Len(s)) = c

RECURSIVE TrimStart(_)
TrimStart(s) ==
    IF s # "" /\ Head(s) \in WhiteSpace THEN TrimStart(Tail(s)) ELSE s

RECURSIVE TrimEnd(_)
TrimEnd(s) ==
    IF s # "" /\ CharAt(s, Len(s)) \in WhiteSpace
    THEN TrimEnd(Upto(s, Len(s) - 1))
    ELSE s

\* s.trim()
Trim(s) == TrimEnd(TrimStart(s))

RECURSIVE SkipZeros(_, _)
\* The leading zeros and underscores from position i on are passed over:
\* the rest starts at the first other digit or minus sign, or one before
\* a dot; any other character makes the string no number.  A string of
\* zeros and underscores only leaves its last character.
SkipZeros(s, i) ==
    IF i > Len(s) THEN Some(CharAt(s, Len(s)))
    ELSE IF CharAt(s, i) \in {"0", "_"} THEN SkipZeros(s, i + 1)
    ELSE IF CharAt(s, i) \in NonZeroDigits \cup {"-"} THEN Some(From(s, i))
    ELSE IF CharAt(s, i) = "." THEN Some(From(s, i - 1))
    ELSE None

\* The string without its leading zeros, or None when it cannot be a
\* number: it has to start with a digit or a minus sign.
StripLeadingZeros(s) ==
    IF s = "" THEN None
    ELSE IF Head(s) = "0" THEN SkipZeros(s, 2)
    ELSE IF Head(s) \in NonZeroDigits \cup {"-"} THEN Some(s)
    ELSE None

RECURSIVE Find(_, _, _)
\* The first position from i on where the string has c, or 0.
Find(s, c, i) ==
    IF i > Len(s) THEN 0
    ELSE IF CharAt(s, i) = c THEN i
    ELSE Find(s, c, i + 1)

RECURSIVE AllZeros(_)
AllZeros(s) == s = "" \/ (Head(s) = "0" /\ AllZeros(Tail(s)))

\* A fraction of one or more zeros is dropped; any other string is left.
StripDecimalZeros(s) ==
    LET k == Find(s, ".", 1)
    IN  IF k > 0 /\ k < Len(s) /\ AllZeros(From(s, k + 1))
        THEN Upto(s, k - 1)
        ELSE s

RECURSIVE Remove(_, _)
\* s.replace(c, "")
Remove(s, c) ==
    IF s = "" THEN ""
    ELSE IF Head(s) = c THEN Remove(Tail(s), c)
    ELSE Head(s) \o Remove(Tail(s), c)

RECURSIVE HasDouble(_, _)
\* The string has c twice in a row.
HasDouble(s, c) ==
    /\ Len(s) >= 2
    /\ \/ Head(s) = c /\ Head(Tail(s)) = c
       \/ HasDouble(Tail(s), c)

\* The string without its underscores, when they are single and between
\* other characters; any other string is left.
StripUnderscores(s) ==
    IF \/ StartsWith(s, "_")
       \/ EndsWith(s, "_")
       \/ Find(s, "_", 1) = 0
       \/ HasDouble(s, "_")
    THEN s
    ELSE Remove(s, "_")

\* The sign that is taken off before the zeros are stripped: "+", "-" or
\* "+-" cannot be followed by another sign.
SignLength(s) ==
    IF StartsWith(s, "+") THEN (IF StartsWith(Tail(s), "-") THEN 2 ELSE 1)
    ELSE IF StartsWith(s, "-") THEN 1
    ELSE 0

\* The cleaned string that is handed to the number parser, or None.
CleanIntStr(str) ==
    LET s    == Trim(str)
        n    == SignLength(s)
        neg  == n > 0 /\ CharAt(s, n) = "-"
        body == From(s, n + 1)
        rest == StripLeadingZeros(body)
    IN  IF n = 2 THEN None
        ELSE IF neg /\ (StartsWith(body, "-") \/ StartsWith(body, "+"))
        THEN None
        ELSE IF rest = None THEN None
        ELSE Some((IF neg THEN "-" ELSE "") \o
                  StripUnderscores(StripDecimalZeros(rest[1])))

RECURSIVE AllDigits(_)
AllDigits(s) == s = "" \/ (Head(s) \in Digits /\ AllDigits(Tail(s)))

\* A decimal number: an optional minus sign, then 0 or digits that do
\* not start with 0.
IsDecimal(s) ==
    LET d == IF StartsWith(s, "-") THEN Tail(s) ELSE s
    IN  /\ d # ""
        /\ AllDigits(d)
        /\ d = "0" \/ Head(d) # "0"

RECURSIVE DecimalValue(_, _)
\* The value of a string of digits, after the value sofar of those before.
DecimalValue(s, sofar) ==
    IF s = "" THEN sofar
    ELSE DecimalValue(Tail(s), 10 * sofar + DigitValue(Head(s)))

\* The string spells an integer.
IsNumeral(s) ==
    /\ CleanIntStr(s) # None
    /\ IsDecimal(CleanIntStr(s)[1])

\* The integer it spells.
ParseInt(s) ==
    LET c == CleanIntStr(s)[1]
    IN  IF StartsWith(c, "-") THEN 0 - DecimalValue(Tail(c), 0)
        ELSE DecimalValue(c, 0)

\* What pydantic accepts for a field of type str, str | None, list[str]
\* and int | None.  In its lax mode an int field reads a bool as 0 or 1
\* and a string that spells an integer as that integer.
IsStr(j) == j.t = "str"
IsOptStr(j) == j.t \in {"str", "null"}
IsStrList(j) == j.t = "list" /\ \A i \in 1..Len(j.list) : IsStr(j.list[i])
IsOptInt(j) ==
    \/ j.t \in {"int", "bool", "null"}
    \/ j.t = "str" /\ IsNumeral(j.str)

\* The value of a validated str | None field.
OptStr(j) == IF j.t = "null" THEN None ELSE Some(j.str)

\* The value of a validated int | None field.
OptInt(j) ==
    CASE j.t = "null" -> None
      [] j.t = "int"  -> Some(j.int)
      [] j.t = "bool" -> Some(IF j.bool THEN 1 ELSE 0)
      [] j.t = "str"  -> Some(ParseInt(j.str))

(***************************************************************************)
(* The registry loader, lines 81-119.                                      *)
(***************************************************************************)

\* DatasetColumn(**column): "" when it constructs, else the exception.
\* ** needs a mapping; name and dtype are required strings, description
\* and units are strings or None.
ColumnError(column) ==
    IF column.t # "obj" THEN "TypeError"
    ELSE IF \/ ~IsStr(Get(column.obj, "name"))
            \/ ~IsStr(Get(column.obj, "dtype"))
            \/ ~IsOptStr(Get(column.obj, "description"))
            \/ ~IsOptStr(Get(column.obj, "units"))
         THEN "ValidationError"
    ELSE ""

\* DatasetColumn(**column) of a valid column object: the optional fields
\* default to None, the other keys of the object (nullable) are no fields
\* of the class and are dropped.
DatasetColumn(column) ==
    [name        |-> column.name.str,
     dtype       |-> column.dtype.str,
     description |-> OptStr(Get(column, "description")),
     units       |-> OptStr(Get(column, "units"))]

RECURSIVE FirstColumnError(_)
\* The comprehension of lines 96-98 stops at the first column that raises.
FirstColumnError(columns) ==
    IF columns = <<>> THEN ""
    ELSE IF ColumnError(Head(columns)) # "" THEN ColumnError(Head(columns))
    ELSE FirstColumnError(Tail(columns))

\* The comprehension of lines 96-98 over payload.get("columns", []): ""
\* when it builds a list, else the exception.  null, a number and a bool
\* cannot be iterated; a string yields its characters and an object its
\* keys, neither of which ** accepts.
ColumnsError(payload) ==
    LET cs == GetOr(payload, "columns", JList(<<>>))
    IN  CASE cs.t \in {"null", "int", "bool"} -> "TypeError"
          [] cs.t = "str"  -> IF cs.str = "" THEN "" ELSE "TypeError"
          [] cs.t = "obj"  -> IF DOMAIN cs.obj = {} THEN "" ELSE "TypeError"
          [] cs.t = "list" -> FirstColumnError(cs.list)

\* The columns list of lines 96-98, when the comprehension raises nothing.
ParseColumns(payload) ==
    LET cs == GetOr(payload, "columns", JList(<<>>))
    IN  IF cs.t = "list"
        THEN [i \in 1..Len(cs.list) |-> DatasetColumn(cs.list[i].obj)]
        ELSE <<>>

\* DatasetMeta(...) of lines 102-109 validates its fields.
MetaValid(payload) ==
    /\ IsStr(payload.dataset_id)
    /\ IsStr(GetOr(payload, "name", payload.dataset_id))
    /\ IsStr(GetOr(payload, "description", JStr("")))
    /\ IsStrList(GetOr(payload, "primary_key", JList(<<>>)))
    /\ IsOptInt(Get(payload, "sample_size"))

\* DatasetMeta(...) of lines 102-109, for a payload it accepts.
DatasetMeta(payload, columns) ==
    LET pk == GetOr(payload, "primary_key", JList(<<>>)).list
    IN  [dataset_id  |-> payload.dataset_id.str,
         name        |-> GetOr(payload, "name", payload.dataset_id).str,
         description |-> GetOr(payload, "description", JStr("")).str,
         primary_key |-> [i \in 1..Len(pk) |-> pk[i].str],
         columns     |-> columns,
         sample_size |-> OptInt(Get(payload, "sample_size"))]

\* DatasetEntry(...) of lines 110-115.  The dataclass validates nothing:
\* schema and table are kept as the file gives them, of whatever type.
DatasetEntry(payload, columns) ==
    [meta         |-> DatasetMeta(payload, columns),
     schema       |-> payload.schema,
     table        |-> payload.table,
     column_names |-> {columns[i].name : i \in 1..Len(columns)}]

\* What one file goes through, in the order of lines 87-109; "" when
\* nothing raises, else the exception (for the three RuntimeErrors, what
\* it reports).
FileError(file) ==
    IF file.t = "invalid" THEN "JSONDecodeError"
    ELSE IF file.t # "obj" THEN "AttributeError"
    ELSE IF ~Truthy(Get(file.obj, "dataset_id")) THEN "missing dataset_id"
    ELSE IF ~Truthy(Get(file.obj, "schema")) \/ ~Truthy(Get(file.obj, "table"))
         THEN "missing schema/table"
    ELSE IF ColumnsError(file.obj) # "" THEN ColumnsError(file.obj)
    ELSE IF ParseColumns(file.obj) = <<>> THEN "no columns"
    ELSE IF ~MetaValid(file.obj) THEN "ValidationError"
    ELSE ""

\* The entry lines 96-115 make of a file that raises nothing.
FileEntry(file) == DatasetEntry(file.obj, ParseColumns(file.obj))

\* registry[dataset_id] = entry: a later file replaces an earlier one
\* with the same dataset_id.
DictSet(registry, key, value) ==
    [k \in DOMAIN registry \cup {key} |->
        IF k = key THEN value ELSE registry[k]]

EmptyDict == [k \in {} |-> None]

RECURSIVE LoadFilesSkip(_, _)
\* The loop with `continue` in place of `raise`: a bad file is left out.
LoadFilesSkip(files, registry) ==
    IF files = <<>> THEN [ok |-> TRUE, registry |-> registry, error |-> ""]
    ELSE IF FileError(Head(files)) # ""
         THEN LoadFilesSkip(Tail(files), registry)
    ELSE LoadFilesSkip(Tail(files),
                       DictSet(registry, Head(files).obj.dataset_id.str,
                               FileEntry(Head(files))))

RECURSIVE LoadFiles(_, _)
\* The loop of lines 86-115 over the files left, in sorted path order.
LoadFiles(files, registry) ==
    IF files = <<>> THEN [ok |-> TRUE, registry |-> registry, error |-> ""]
    ELSE IF FileError(Head(files)) # ""
         THEN [ok |-> FALSE, registry |-> EmptyDict,
               error |-> FileError(Head(files))]
    ELSE LoadFiles(Tail(files),
                   DictSet(registry, Head(files).obj.dataset_id.str,
                           FileEntry(Head(files))))

\* _load_dataset_registry(directory)
LoadDatasetRegistry(directory) ==
    IF ~directory.exists
    THEN [ok |-> FALSE, registry |-> EmptyDict, error |-> "no directory"]
    ELSE LET r == LoadFiles(directory.files, EmptyDict)
         IN  IF ~r.ok THEN r
             ELSE IF DOMAIN r.registry = {}
                  THEN [ok |-> FALSE, registry |-> EmptyDict,
                        error |-> "no datasets"]
             ELSE r

(***************************************************************************)
(* The store: one table, as the statements of lines 223 and 253 see it.    *)
(***************************************************************************)

\* The four sample rows of marts.pitching_outings.
SampleRows ==
    << [id |-> 1, season |-> 2021, outs |-> 12],
       [id |-> 2, season |-> 2021, outs |-> 9],
       [id |-> 3, season |-> 2022, outs |-> 15],
       [id |-> 4, season |-> 2022, outs |-> 6] >>

\* The rows of "schema"."table" in the store.
StoreTable(schema, table) ==
    IF schema = "marts" /\ table = "pitching_outings" THEN SampleRows ELSE <<>>

\* The store's comparison of a row value with a bound parameter.
Compare(v, operator, p) ==
    CASE operator = "="  -> v = p
      [] operator = ">=" -> v >= p
      [] operator = "<=" -> v <= p

\* The rows (by position in the table) the WHERE clause of a statement keeps:
\* clause k is compared with the k-th bound parameter.
StoreMatching(stmt) ==
    LET tbl == StoreTable(stmt.schema, stmt.table)
    IN  {i \in 1..Len(tbl) :
            \A k \in 1..Len(stmt.where) :
                Compare(tbl[i][stmt.where[k].column],
                        stmt.where[k].operator, stmt.params[k])}

\* SELECT COUNT(*): cur.fetchone() is a one-column row.
StoreCount(stmt) == Some(Cardinality(StoreMatching(stmt)))

\* row a sorts strictly before row b under ORDER BY key (lexicographic).
RECURSIVE KeyLess(_, _, _)
KeyLess(a, b, key) ==
    IF key = <<>> THEN FALSE
    ELSE \/ a[Head(key)] < b[Head(key)]
         \/ a[Head(key)] = b[Head(key)] /\ KeyLess(a, b, Tail(key))

\* Every sequence without repetition of the elements of S.
Perms(S) ==
    {p \in [1..Cardinality(S) -> S] :
        \A i, j \in 1..Cardinality(S) : i # j => p[i] # p[j]}

\* The orders in which the store may produce the matching rows: any order
\* when the statement has no ORDER BY, and with one any order that never
\* puts a row after a row that sorts strictly after it (rows with equal
\* keys come in an order the store chooses anew for each statement).
StoreOrders(stmt) ==
    LET tbl == StoreTable(stmt.schema, stmt.table)
    IN  {p \in Perms(StoreMatching(stmt)) :
            \A i, j \in 1..Len(p) :
                i < j => ~KeyLess(tbl[p[j]], tbl[p[i]], stmt.order)}

\* LIMIT %s OFFSET %s: the two parameters bound after the filter values.
StmtLimit(stmt) == stmt.params[Len(stmt.where) + 1]
StmtOffset(stmt) == stmt.params[Len(stmt.where) + 2]

\* The positions of the rows a fetch statement returns under order p.
StoreFetch(stmt, p) ==
    SubSeq(p, StmtOffset(stmt) + 1,
           Min(StmtOffset(stmt) + StmtLimit(stmt), Len(p)))

\* dict_row: each returned row as a dict over the selected columns.
DictRows(stmt, ids) ==
    LET tbl == StoreTable(stmt.schema, stmt.table)
    IN  [n \in 1..Len(ids) |-> [c \in Range(stmt.select) |-> tbl[ids[n]][c]]]

(***************************************************************************)
(* The query validator and translator, lines 172-211.                      *)
(***************************************************************************)

\* DATASETS.get(dataset_id, default) with some entry as the default.
DatasetsGetDefault(dataset_id) ==
    IF dataset_id \in DOMAIN DATASETS THEN Some(DATASETS[dataset_id])
    ELSE IF DOMAIN DATASETS = {} THEN None
    ELSE Some(DATASETS[CHOOSE d \in DOMAIN DATASETS : TRUE])

\* DATASETS.get(dataset_id)
DatasetsGet(dataset_id) ==
    IF dataset_id \in DOMAIN DATASETS THEN Some(DATASETS[dataset_id]) ELSE None

\* Subscripting a DatasetEntry (cfg["meta"], dataset["meta"]): the dataclass
\* of lines 73-78 defines no __getitem__, so the expression raises TypeError.
EntryGetItem(entry, key) == [ok |-> FALSE, error |-> "TypeError"]

\* _resolve_columns that keeps the known names and drops the others.
ResolveColumnsDrop(entry, requested) ==
    LET available == [i \in 1..Len(entry.meta.columns) |->
                          entry.meta.columns[i].name]
    IN  IF requested = None \/ requested = Some(<<>>)
        THEN [ok |-> TRUE, columns |-> available, unknown |-> <<>>]
        ELSE [ok |-> TRUE,
              columns |-> SeqFilterIn(requested[1], entry.column_names),
              unknown |-> <<>>]

\* _resolve_columns that raises on the first unknown name it meets.
ResolveColumnsFirst(entry, requested) ==
    LET available == [i \in 1..Len(entry.meta.columns) |->
                          entry.meta.columns[i].name]
    IN  IF requested = None \/ requested = Some(<<>>)
        THEN [ok |-> TRUE, columns |-> available, unknown |-> <<>>]
        ELSE LET unknown == SeqFilterNotIn(requested[1], entry.column_names)
             IN  IF unknown # <<>>
                 THEN [ok |-> FALSE, columns |-> <<>>,
                       unknown |-> <<Head(unknown)>>]
                 ELSE [ok |-> TRUE, columns |-> requested[1],
                       unknown |-> <<>>]

\* _resolve_columns(entry, requested): requested is None or Some(list).
ResolveColumns(entry, requested) ==
    LET available == [i \in 1..Len(entry.meta.columns) |->
                          entry.meta.columns[i].name]
    IN  IF requested = None \/ requested = Some(<<>>)
        THEN [ok |-> TRUE, columns |-> available, unknown |-> <<>>]
        ELSE LET unknown == SeqFilterNotIn(requested[1], entry.column_names)
             IN  IF unknown # <<>>
                 THEN [ok |-> FALSE, columns |-> <<>>, unknown |-> unknown]
                 ELSE [ok |-> TRUE, columns |-> requested[1],
                       unknown |-> <<>>]

\* op_map with the two inequalities exchanged.
OpMapSwapped(op) ==
    CASE op = "eq"  -> "="
      [] op = "gte" -> "<="
      [] op = "lte" -> ">="

\* op_map of line 192
OpMap(op) ==
    CASE op = "eq"  -> "="
      [] op = "gte" -> ">="
      [] op = "lte" -> "<="

RECURSIVE BuildClauses(_, _, _, _)
\* The loop of lines 195-208: the first filter on a column that is not
\* allowed raises, naming that column.
BuildClauses(filters, allowed_columns, clauses, params) ==
    IF filters = <<>>
    THEN [ok |-> TRUE, where_sql |-> clauses, params |-> params,
          unknown |-> <<>>]
    ELSE IF Head(filters).column \notin allowed_columns
         THEN [ok |-> FALSE, where_sql |-> <<>>, params |-> <<>>,
               unknown |-> <<Head(filters).column>>]
    ELSE BuildClauses(Tail(filters), allowed_columns,
                      Append(clauses, [column   |-> Head(filters).column,
                                       operator |-> OpMap(Head(filters).op)]),
                      Append(params, Head(filters).value))

\* _build_where_clause(filters, allowed_columns): the WHERE clause as the
\* sequence of its AND-ed comparisons, and the parameters bound to them.
BuildWhereClause(filters, allowed_columns) ==
    BuildClauses(filters, allowed_columns, <<>>, <<>>)

\* The statement _count_rows builds, lines 215-219 and 223.
CountStatement(entry, where_sql, params) ==
    [kind |-> "count", schema |-> entry.schema.str, table |-> entry.table.str,
     where |-> where_sql, params |-> params]

\* The parameter list of line 249
FetchValues(params, limit, offset) == params \o <<limit, offset>>

\* The fetch statement without its ORDER BY clause.
FetchStatementUnordered(entry, columns, where_sql, params, limit, offset) ==
    [kind |-> "fetch", select |-> columns,
     schema |-> entry.schema.str, table |-> entry.table.str,
     where |-> where_sql, order |-> <<>>,
     params |-> FetchValues(params, limit, offset)]

\* The statement _fetch_rows builds, lines 236-249.
FetchStatement(entry, columns, where_sql, params, limit, offset) ==
    [kind |-> "fetch", select |-> columns,
     schema |-> entry.schema.str, table |-> entry.table.str,
     where |-> where_sql, order |-> entry.meta.primary_key,
     params |-> FetchValues(params, limit, offset)]

\* int(result[0]) if result else 0
CountOf(result) == IF result = None THEN 0 ELSE result[1]

\* next_offset with <= for <.
NextOffsetInclusive(offset, limit, total) ==
    IF offset + limit <= total THEN Some(offset + limit) ELSE None

\* next_offset of line 161
NextOffset(offset, limit, total) ==
    IF offset + limit < total THEN Some(offset + limit) ELSE None

\* DatasetQuery's field constraints, lines 60-61.
\* QueryFilter.op, line 53
FilterOps == {"eq", "gte", "lte"}

\* DatasetQuery's and QueryFilter's constraints, lines 51-61, on a body
\* whose fields have the declared types.
QueryValid(query) ==
    /\ \A i \in 1..Len(query.filters) : query.filters[i].op \in FilterOps
    /\ query.limit >= LimitMin
    /\ query.limit <= LimitMax
    /\ query.offset >= OffsetMin

\* sql.Identifier(entry.schema), sql.Identifier(entry.table) of lines
\* 216-217 raise TypeError on anything but a string.
IdentifiersValid(entry) == IsStr(entry.schema) /\ IsStr(entry.table)


(***************************************************************************)
(* Inputs.                                                                 *)
(***************************************************************************)

\* A column as fetch_columns of the generator script writes it.
ColId ==
    JObj([name |-> JStr("id"), dtype |-> JStr("int4"),
          description |-> JStr(""), units |-> JNull,
          nullable |-> JBool(FALSE)])

\* Columns as a curated descriptor file gives them.
ColSeason ==
    JObj([name |-> JStr("season"), dtype |-> JStr("int4"),
          description |-> JStr("year")])
ColOuts ==
    JObj([name |-> JStr("outs"), dtype |-> JStr("int4"),
          units |-> JStr("outs"), nullable |-> JBool(FALSE)])

SampleColumns == JList(<<ColId, ColSeason, ColOuts>>)

\* The curated registry the server is run with: datasets over the sample
\* table.  One is keyed by its unique id, one declares a primary_key whose
\* values repeat, one (as the generator script writes it) declares none,
\* and one gives its table as a number, which the loader lets through.
SampleDir ==
    [exists |-> TRUE,
     files  |-> << JObj([dataset_id |-> JStr("outings_by_season"),
                         schema |-> JStr("marts"),
                         table |-> JStr("pitching_outings"),
                         primary_key |-> JList(<<JStr("season")>>),
                         columns |-> SampleColumns]),
                   JObj([dataset_id |-> JStr("outings_raw"),
                         name |-> JStr("Pitching Outings"),
                         description |-> JStr(""),
                         schema |-> JStr("marts"),
                         table |-> JStr("pitching_outings"),
                         primary_key |-> JList(<<>>),
                         columns |-> SampleColumns,
                         sample_size |-> JNull]),
                   JObj([dataset_id |-> JStr("outings_untyped"),
                         schema |-> JStr("marts"),
                         table |-> JInt(7),
                         columns |-> SampleColumns]),
                   JObj([dataset_id |-> JStr("pitching_outings"),
                         schema |-> JStr("marts"),
                         table |-> JStr("pitching_outings"),
                         name |-> JStr("Pitching Outings"),
                         description |-> JStr("one row per outing"),
                         primary_key |-> JList(<<JStr("id")>>),
                         columns |-> SampleColumns,
                         sample_size |-> JInt(4)]) >>]

\* A descriptor file with the four keys the loader needs.
GoodPayload ==
    [dataset_id |-> JStr("d1"), schema |-> JStr("s"), table |-> JStr("t"),
     columns |-> JList(<<ColId>>)]

\* The payload without one key.
Without(payload, key) == [k \in DOMAIN payload \ {key} |-> payload[k]]

\* Values a descriptor file may give for each key, good and bad.
KeyValues ==
    [dataset_id  |-> {JNull, JStr(""), JStr("d2"), JInt(5)},
     schema      |-> {JNull, JStr(""), JInt(5)},
     table       |-> {JStr(""), JList(<<>>)},
     columns     |-> {JNull, JList(<<>>), JStr(""), JObj(EmptyDict),
                      JList(<<ColSeason, ColOuts>>),
                      JList(<<ColId, JObj([dtype |-> JStr("text")])>>),
                      JList(<<JObj([name |-> JNull, dtype |-> JStr("int4")])>>),
                      JList(<<JStr("id")>>)},
     name        |-> {JNull, JStr("One")},
     description |-> {JNull},
     primary_key |-> {JNull, JStr("id"), JList(<<>>), JList(<<JStr("id")>>),
                      JList(<<JInt(1)>>)},
     sample_size |-> {JNull, JInt(4), JBool(TRUE), JStr("many"), JStr(""),
                      JStr("4"), JStr("-1"), JStr("+4"), JStr(" 04 "),
                      JStr("4.0"), JStr("1_0"), JStr("4."), JStr("4.5"),
                      JStr("1__0")}]

\* Descriptor files the loader is tried on: the good one, the good one
\* without one key or with one key given another value, a file that is
\* not JSON and a JSON file that is not an object.
Payloads ==
    {JObj(GoodPayload), BadJson, JList(<<>>)}
        \cup {JObj(Without(GoodPayload, k)) : k \in DOMAIN GoodPayload}
        \cup UNION {{JObj(DictSet(GoodPayload, k, v)) : v \in KeyValues[k]} :
                       k \in DOMAIN KeyValues}

FileLists == UNION {[1..n -> Payloads] : n \in 0..MaxFiles}

Directories ==
    {[exists |-> FALSE, files |-> <<>>]}
        \cup {[exists |-> TRUE, files |-> fs] : fs \in FileLists}

DatasetIds ==
    {"pitching_outings", "outings_by_season", "outings_raw",
     "outings_untyped", "does_not_exist"}

ColumnLists ==
    {None, Some(<<>>), Some(<<"outs", "id">>),
     Some(<<"bogus", "season", "nope">>), Some(<<"nope">>)}

Filter(column, op, value) == [column |-> column, op |-> op, value |-> value]

SingleFilters ==
    {Filter(c, o, v) : c \in {"season", "outs", "bogus"},
                       o \in {"eq", "gte", "lte"}, v \in {2021, 12}}

FilterLists ==
    {<<>>, <<Filter("season", "ne", 2021)>>, <<Filter("bogus", "ne", 1)>>}
      \cup {<<f>> : f \in SingleFilters}
      \cup {<<f, g>> : f \in {Filter("season", "eq", 2021),
                               Filter("bogus", "eq", 1)},
                       g \in {Filter("outs", "gte", 12),
                               Filter("nope", "lte", 1),
                               Filter("outs", "lte", 9)}}

Query(filters, columns, limit, offset) ==
    [filters |-> filters, columns |-> columns, limit |-> limit,
     offset |-> offset]

\* Request bodies as they arrive, the out-of-range ones included.
Queries ==
    {Query(f, c, l, o) : f \in FilterLists, c \in ColumnLists,
                         l \in 0..MaxLimit, o \in -1..MaxOffset}

Requests == {[dataset_id |-> d, query |-> q] : d \in DatasetIds, q \in Queries}

\* The queries the paging client starts with.
PageQueries ==
    {Query(f, c, l, 0) : f \in {<<>>, <<Filter("season", "eq", 2021)>>,
                                <<Filter("outs", "gte", 9)>>},
                         c \in {None, Some(<<"outs">>)},
                         l \in 1..MaxLimit}

PageRequests ==
    {[dataset_id |-> d, query |-> q] : d \in DatasetIds, q \in PageQueries}

\* The requests concurrent threads send.
ConcRequests ==
    {[dataset_id |-> "pitching_outings",
      query |-> Query(<<>>, None, 2, 0)],
     [dataset_id |-> "outings_raw",
      query |-> Query(<<Filter("season", "eq", 2021)>>, Some(<<"outs">>), 1, 1)],
     [dataset_id |-> "pitching_outings",
      query |-> Query(<<Filter("bogus", "eq", 1)>>, None, 1, 0)]}

(***************************************************************************)
(* State.                                                                  *)
(***************************************************************************)

NoResponse == [status |-> 0]

\* A thread that is running no handler.
IdleThread ==
    [pc |-> "idle", op |-> "", dataset_id |-> "",
     query |-> Query(<<>>, None, 0, 0),
     entry |-> None,
     selected_columns |-> <<>>, where_sql |-> <<>>, params |-> <<>>,
     phase |-> "", created |-> None, pool |-> None, held |-> <<>>,
     exc |-> "",
     result |-> None, total |-> 0, rows |-> <<>>, rowids |-> <<>>,
     stmts |-> <<>>, resp |-> NoResponse]

NoCollection == [calls |-> 0, returned |-> 0, rowids |-> <<>>, data |-> <<>>]

InitWith(directory) ==
    /\ proc = "start"
    /\ dir = directory
    /\ DATASETS = EmptyDict
    /\ POOL = None
    /\ pools = EmptyDict
    /\ thr = [t \in Threads |-> IdleThread]
    /\ session = None
    /\ acc = NoCollection

Init == InitWith(SampleDir)

InitLoad == \E d \in Directories : InitWith(d)

\* The request a thread starts with.
Started(t, op, dataset_id, query) ==
    [thr[t] EXCEPT !.op = op, !.dataset_id = dataset_id, !.query = query]

\* The handler ends: its response (or the exception's response) is sent.
Done(r, resp) == [r EXCEPT !.pc = "done", !.resp = resp]

\* HTTPException(status_code, detail); names are the columns the detail quotes.
HTTPException(status, detail, names) ==
    [status |-> status, detail |-> detail, names |-> names]

\* An exception that is no HTTPException: FastAPI answers 500.
ServerError(error) == [status |-> 500, error |-> error]

(***************************************************************************)
(* Actions.                                                                *)
(***************************************************************************)

\* Line 129: importing the module loads the registry or dies.
Startup ==
    /\ proc = "start"
    /\ LET r == LoadDatasetRegistry(dir)
       IN  IF r.ok
           THEN proc' = "serving" /\ DATASETS' = r.registry
           ELSE proc' = "crashed" /\ UNCHANGED DATASETS
    /\ UNCHANGED <<dir, POOL, pools, thr, session, acc>>

\* list_datasets, lines 137-139: the comprehension subscripts every entry.
ListDatasetsResponse ==
    LET ids == DOMAIN DATASETS
    IN  IF \E d \in ids : ~EntryGetItem(DATASETS[d], "meta").ok
        THEN ServerError("TypeError")
        ELSE [status |-> 200,
              body |-> {EntryGetItem(DATASETS[d], "meta").value : d \in ids}]

ListDatasets(t) ==
    /\ proc = "serving"
    /\ thr[t].pc = "idle"
    /\ thr' = [thr EXCEPT ![t] =
                  Done(Started(t, "list", "", thr[t].query),
                       ListDatasetsResponse)]
    /\ UNCHANGED <<proc, dir, DATASETS, POOL, pools, session, acc>>

\* describe_dataset, lines 142-147.
DescribeDatasetResponse(dataset_id) ==
    LET dataset == DatasetsGet(dataset_id)
    IN  IF dataset = None
        THEN HTTPException(404, "Dataset not found", <<>>)
        ELSE IF ~EntryGetItem(dataset[1], "meta").ok
             THEN ServerError(EntryGetItem(dataset[1], "meta").error)
             ELSE [status |-> 200,
                   body |-> EntryGetItem(dataset[1], "meta").value]

DescribeDataset(t, dataset_id) ==
    /\ proc = "serving"
    /\ thr[t].pc = "idle"
    /\ thr' = [thr EXCEPT ![t] =
                  Done(Started(t, "describe", dataset_id, thr[t].query),
                       DescribeDatasetResponse(dataset_id))]
    /\ UNCHANGED <<proc, dir, DATASETS, POOL, pools, session, acc>>

\* query_dataset up to line 159 and _count_rows up to line 219: the body
\* is decoded (lines 51-61), the dataset looked up, the columns resolved,
\* the WHERE clause and the identifiers of the count statement built.
QueryValidated(r) ==
    LET entry == DatasetsGet(r.dataset_id)
    IN  IF ~QueryValid(r.query)
        THEN Done(r, [status |-> 422, detail |-> "validation error"])
        ELSE IF entry = None
        THEN Done(r, HTTPException(404, "Dataset not found", <<>>))
        ELSE LET sel == ResolveColumns(entry[1], r.query.columns)
                 whr == BuildWhereClause(r.query.filters,
                                         entry[1].column_names)
             IN  IF ~sel.ok
                 THEN Done(r, HTTPException(400, "Columns are not available",
                                            sel.unknown))
                 ELSE IF ~whr.ok
                 THEN Done(r, HTTPException(400,
                                  "Column cannot be used for filtering",
                                  whr.unknown))
                 ELSE IF ~IdentifiersValid(entry[1])
                 THEN Done(r, ServerError("TypeError"))
                 ELSE [r EXCEPT !.entry = entry,
                                !.selected_columns = sel.columns,
                                !.where_sql = whr.where_sql,
                                !.params = whr.params,
                                !.phase = "count",
                                !.pc = "pool_check"]

QueryStart(t, dataset_id, query) ==
    /\ proc = "serving"
    /\ thr[t].pc = "idle"
    /\ thr' = [thr EXCEPT ![t] =
                  QueryValidated(Started(t, "query", dataset_id, query))]
    /\ UNCHANGED <<proc, dir, DATASETS, POOL, pools>>

\* A request POST /datasets/{dataset_id}/query arrives at an idle thread.
QueryDataset(t, requests) ==
    /\ thr[t].pc = "idle"
    /\ \E c \in requests : QueryStart(t, c.dataset_id, c.query)
    /\ UNCHANGED <<session, acc>>

\* The client of the paging protocol starts at offset 0 ...
PageStart(t, requests) ==
    /\ thr[t].pc = "idle"
    /\ IF session = None THEN TRUE ELSE session[1].state # "more"
    /\ \E c \in requests :
          /\ c.query.offset = 0
          /\ QueryStart(t, c.dataset_id, c.query)
          /\ session' = Some([dataset_id |-> c.dataset_id, query |-> c.query,
                              state |-> "waiting", next |-> 0, total |-> 0])
    /\ acc' = NoCollection

\* ... keeps the page it is sent, and reads total and next_offset ...
PageCollect(t) ==
    /\ thr[t].pc = "done"
    /\ session # None
    /\ LET resp == thr[t].resp
       IN  IF resp.status # 200
           THEN /\ session' = Some([session[1] EXCEPT !.state = "aborted"])
                /\ UNCHANGED acc
           ELSE /\ session' =
                      Some([session[1] EXCEPT
                               !.total = resp.total,
                               !.state = IF resp.next_offset = None
                                         THEN "complete" ELSE "more",
                               !.next  = IF resp.next_offset = None
                                         THEN 0 ELSE resp.next_offset[1]])
                /\ acc' = [calls    |-> acc.calls + 1,
                           returned |-> acc.returned + resp.returned,
                           rowids   |-> acc.rowids \o thr[t].rowids,
                           data     |-> acc.data \o resp.data]
    /\ thr' = [thr EXCEPT ![t] = IdleThread]
    /\ UNCHANGED <<proc, dir, DATASETS, POOL, pools>>

\* ... and asks for the next page with the same filters, columns and limit.
PageFollow(t) ==
    /\ thr[t].pc = "idle"
    /\ session # None
    /\ session[1].state = "more"
    /\ QueryStart(t, session[1].dataset_id,
                  [session[1].query EXCEPT !.offset = session[1].next])
    /\ session' = Some([session[1] EXCEPT !.state = "waiting"])
    /\ UNCHANGED acc

\* _get_pool, line 124: the test of the global.
PoolCheck(t) ==
    /\ thr[t].pc = "pool_check"
    /\ thr' = [thr EXCEPT ![t].pc =
                  IF POOL = None THEN "pool_create" ELSE "pool_return"]
    /\ UNCHANGED <<proc, dir, DATASETS, POOL, pools, session, acc>>

\* _get_pool, line 125, right-hand side: ConnectionPool(POSTGRES_DSN)
\* constructs a new pool.  The global is not assigned yet.
PoolCreate(t) ==
    /\ thr[t].pc = "pool_create"
    /\ LET id == Cardinality(DOMAIN pools) + 1
       IN  /\ pools' = (id :> PoolSize) @@ pools
           /\ thr' = [thr EXCEPT ![t].created = Some(id),
                                 ![t].pc = "pool_store"]
    /\ UNCHANGED <<proc, dir, DATASETS, POOL, session, acc>>

\* _get_pool, line 125, the assignment: the new pool is stored in the
\* global, over whatever another thread has stored in the meantime.
PoolStore(t) ==
    /\ thr[t].pc = "pool_store"
    /\ POOL' = thr[t].created
    /\ thr' = [thr EXCEPT ![t].pc = "pool_return"]
    /\ UNCHANGED <<proc, dir, DATASETS, pools, session, acc>>

\* _get_pool, line 126: the global is read again and returned.
PoolReturn(t) ==
    /\ thr[t].pc = "pool_return"
    /\ thr' = [thr EXCEPT ![t].pool = POOL, ![t].pc = "acquire"]
    /\ UNCHANGED <<proc, dir, DATASETS, POOL, pools, session, acc>>

\* with pool.connection() as conn: an idle connection is taken.
Acquire(t) ==
    /\ thr[t].pc = "acquire"
    /\ pools[thr[t].pool[1]] > 0
    /\ pools' = [pools EXCEPT ![thr[t].pool[1]] = @ - 1]
    /\ thr' = [thr EXCEPT ![t].held = Append(@, thr[t].pool[1]),
                          ![t].pc = "exec"]
    /\ UNCHANGED <<proc, dir, DATASETS, POOL, session, acc>>

\* with pool.connection() as conn: no connection came back in time.
AcquireTimeout(t) ==
    /\ thr[t].pc = "acquire"
    /\ pools[thr[t].pool[1]] = 0
    /\ thr' = [thr EXCEPT ![t] = Done(@, ServerError("PoolTimeout"))]
    /\ UNCHANGED <<proc, dir, DATASETS, POOL, pools, session, acc>>

\* The statement the thread is about to execute.
Statement(r) ==
    IF r.phase = "count"
    THEN CountStatement(r.entry[1], r.where_sql, r.params)
    ELSE FetchStatement(r.entry[1], r.selected_columns,
                        r.where_sql, r.params, r.query.limit, r.query.offset)

\* Lines 223-224: the count statement runs and its row is fetched.
ExecCount(t) ==
    /\ thr[t].pc = "exec"
    /\ thr[t].phase = "count"
    /\ LET stmt == Statement(thr[t])
       IN  thr' = [thr EXCEPT ![t].stmts = Append(@, stmt),
                              ![t].result = StoreCount(stmt),
                              ![t].pc = "release"]
    /\ UNCHANGED <<proc, dir, DATASETS, POOL, pools, session, acc>>

\* Lines 253-254: the fetch statement runs and all its rows are fetched.
ExecFetch(t) ==
    /\ thr[t].pc = "exec"
    /\ thr[t].phase = "fetch"
    /\ LET stmt == Statement(thr[t])
       IN  \E p \in StoreOrders(stmt) :
              thr' = [thr EXCEPT
                         ![t].stmts = Append(@, stmt),
                         ![t].rowids = StoreFetch(stmt, p),
                         ![t].rows = DictRows(stmt, StoreFetch(stmt, p)),
                         ![t].pc = "release"]
    /\ UNCHANGED <<proc, dir, DATASETS, POOL, pools, session, acc>>

\* Lines 223 and 253: the store rejects the statement or times out.
ExecFail(t) ==
    /\ thr[t].pc = "exec"
    /\ thr' = [thr EXCEPT ![t].stmts = Append(@, Statement(thr[t])),
                          ![t].exc = "OperationalError",
                          ![t].pc = "release"]
    /\ UNCHANGED <<proc, dir, DATASETS, POOL, pools, session, acc>>

\* The pool when the connection is put back on the normal path only.
PutBackOnSuccess(r) ==
    IF r.exc # "" THEN pools
    ELSE [pools EXCEPT ![r.held[Len(r.held)]] = @ + 1]

\* The pool after the with block of a thread is left: the connection it
\* held goes back to the pool it came from.
PutBack(r) == [pools EXCEPT ![r.held[Len(r.held)]] = @ + 1]

\* The thread after the with block: an exception goes on to the caller,
\* _count_rows returns the total (line 225), _fetch_rows its rows.
Released(r) ==
    LET free == [r EXCEPT !.held = SubSeq(@, 1, Len(@) - 1)]
    IN  IF r.exc # "" THEN Done(free, ServerError(r.exc))
        ELSE IF r.phase = "count"
        THEN [free EXCEPT !.total = CountOf(r.result), !.phase = "fetch",
                          !.pc = "pool_check"]
        ELSE [free EXCEPT !.pc = "respond"]

\* Leaving the with block of lines 221 and 251, normally or by exception.
Release(t) ==
    /\ thr[t].pc = "release"
    /\ pools' = PutBack(thr[t])
    /\ thr' = [thr EXCEPT ![t] = Released(thr[t])]
    /\ UNCHANGED <<proc, dir, DATASETS, POOL, session, acc>>

\* DatasetSlice(...) of lines 161-169
DatasetSlice(r) ==
    [status      |-> 200,
     dataset_id  |-> r.dataset_id,
     total       |-> r.total,
     returned    |-> Len(r.rows),
     offset      |-> r.query.offset,
     next_offset |-> NextOffset(r.query.offset, r.query.limit, r.total),
     data        |-> r.rows]

\* Lines 161-169: the envelope is built and returned.
Respond(t) ==
    /\ thr[t].pc = "respond"
    /\ thr' = [thr EXCEPT ![t] = Done(@, DatasetSlice(@))]
    /\ UNCHANGED <<proc, dir, DATASETS, POOL, pools, session, acc>>

\* The response has been sent; the thread takes the next request.
Finish(t) ==
    /\ thr[t].pc = "done"
    /\ session = None
    /\ thr' = [thr EXCEPT ![t] = IdleThread]
    /\ UNCHANGED <<proc, dir, DATASETS, POOL, pools, session, acc>>

\* The steps of a query after its validation.
QuerySteps(t) ==
    \/ PoolCheck(t)
    \/ PoolCreate(t)
    \/ PoolStore(t)
    \/ PoolReturn(t)
    \/ Acquire(t)
    \/ ExecCount(t)
    \/ ExecFetch(t)
    \/ ExecFail(t)
    \/ Release(t)
    \/ Respond(t)

(***************************************************************************)
(* Specifications.                                                         *)
(***************************************************************************)

\* One client, any request.
Next ==
    \/ Startup
    \/ ListDatasets(1)
    \/ \E d \in DatasetIds : DescribeDataset(1, d)
    \/ QueryDataset(1, Requests)
    \/ QuerySteps(1)
    \/ Finish(1)

Spec == Init /\ [][Next]_vars

\* The loader on every directory, and the handlers that need no store.
NextLoad ==
    \/ Startup
    \/ ListDatasets(1)
    \/ \E d \in {"d1", "d2", "d3"} : DescribeDataset(1, d)
    \/ Finish(1)

SpecLoad == InitLoad /\ [][NextLoad]_vars

\* Two threads of the server's thread pool, a few requests.
NextConc ==
    \/ Startup
    \/ \E t \in Threads : QueryDataset(t, ConcRequests)
    \/ \E t \in Threads : QuerySteps(t)
    \/ \E t \in Threads : AcquireTimeout(t)
    \/ \E t \in Threads : Finish(t)

SpecConc == Init /\ [][NextConc]_vars

\* One client that pages through a result by following next_offset.
NextPage ==
    \/ Startup
    \/ PageStart(1, PageRequests)
    \/ PageFollow(1)
    \/ PageCollect(1)
    \/ QuerySteps(1)

SpecPage == Init /\ [][NextPage]_vars


(***************************************************************************)
(* Properties.                                                             *)
(***************************************************************************)

\* A query whose body passed decoding and whose handler has been entered.
IsQuery(r) == r.op = "query" /\ r.pc # "idle" /\ QueryValid(r.query)

\* A query that was answered with an envelope.
Answered(r) == IsQuery(r) /\ r.pc = "done" /\ r.resp.status = 200

\* The names of the columns a descriptor declares.
DeclaredNames(entry) ==
    {entry.meta.columns[i].name : i \in 1..Len(entry.meta.columns)}

\* The requested column names and the filter column names of a query.
RequestedNames(query) ==
    IF query.columns = None THEN {} ELSE Range(query.columns[1])
FilterNames(query) == {query.filters[i].column : i \in 1..Len(query.filters)}

\* The names of a query that its dataset does not declare.
UnknownNames(r) ==
    (RequestedNames(r.query) \cup FilterNames(r.query))
        \ DeclaredNames(DATASETS[r.dataset_id])

\* What a filter means: eq is equality, gte is >=, lte is <=.
Satisfies(row, fil) ==
    CASE fil.op = "eq"  -> row[fil.column] = fil.value
      [] fil.op = "gte" -> row[fil.column] >= fil.value
      [] fil.op = "lte" -> row[fil.column] <= fil.value

\* The rows of a dataset's table (by position) that pass every filter.
MatchingRows(entry, filters) ==
    LET tbl == StoreTable(entry.schema.str, entry.table.str)
    IN  {i \in 1..Len(tbl) :
            \A k \in 1..Len(filters) : Satisfies(tbl[i], filters[k])}

\* C1: in every envelope, next_offset is offset + limit when it is not
\* null, and it is null exactly when offset + limit >= total, whatever the
\* number of rows the fetch returned.
NextOffsetFollowsTotal ==
    \A t \in Threads :
        Answered(thr[t]) =>
            LET q == thr[t].query
                e == thr[t].resp
            IN  /\ e.next_offset # None =>
                       e.next_offset = Some(q.offset + q.limit)
                /\ e.next_offset = None <=> q.offset + q.limit >= e.total
                /\ e.total = CountOf(thr[t].result)

\* C1 witness: the first page of three rows of a four-row result, whose
\* next_offset is 3.
NextOffsetWitness ==
    \E t \in Threads :
        /\ Answered(thr[t])
        /\ thr[t].resp.total = 4
        /\ thr[t].query.limit = 3
        /\ thr[t].resp.next_offset = Some(3)

\* C3: a query on a known dataset that names, among its columns or its
\* filters, a column the descriptor does not declare ends with status 400,
\* and no statement has been sent to the store for it.
UnknownColumnRejected ==
    \A t \in Threads :
        (/\ IsQuery(thr[t])
         /\ thr[t].dataset_id \in DOMAIN DATASETS
         /\ UnknownNames(thr[t]) # {})
            => /\ thr[t].pc = "done"
               /\ thr[t].resp.status = 400
               /\ thr[t].stmts = <<>>

\* C3 witness: a rejected query whose only unknown name is a requested
\* column, all its filters being valid.
UnknownColumnWitness ==
    \E t \in Threads :
        /\ IsQuery(thr[t])
        /\ thr[t].dataset_id \in DOMAIN DATASETS
        /\ thr[t].query.columns = Some(<<"nope">>)
        /\ Len(thr[t].query.filters) = 2
        /\ FilterNames(thr[t].query) \subseteq
               DeclaredNames(DATASETS[thr[t].dataset_id])
        /\ thr[t].resp.status = 400

\* C4 as claimed: a 400 answer names every unknown column of the query,
\* those of the requested columns and those of the filters.
AllUnknownNamesReported ==
    \A t \in Threads :
        (/\ IsQuery(thr[t])
         /\ thr[t].pc = "done"
         /\ thr[t].resp.status = 400)
            => UnknownNames(thr[t]) \subseteq Range(thr[t].resp.names)

\* C4 as amended: when requested columns are unknown the 400 answer names
\* all the unknown requested columns, in request order, and nothing else;
\* otherwise it names the column of the first filter that is unknown, and
\* only that one.
UnknownNamesReportedByStage ==
    \A t \in Threads :
        (/\ IsQuery(thr[t])
         /\ thr[t].pc = "done"
         /\ thr[t].resp.status = 400)
            => LET q == thr[t].query
                   declared == DeclaredNames(DATASETS[thr[t].dataset_id])
                   badRequested ==
                       IF q.columns = None THEN <<>>
                       ELSE SeqFilterNotIn(q.columns[1], declared)
                   badFilters ==
                       SeqFilterNotIn([i \in 1..Len(q.filters) |->
                                          q.filters[i].column], declared)
               IN  IF badRequested # <<>>
                   THEN thr[t].resp.names = badRequested
                   ELSE /\ badFilters # <<>>
                        /\ thr[t].resp.names = <<Head(badFilters)>>

\* C4 witness: a 400 answer that names two requested columns at once.
UnknownNamesWitness ==
    \E t \in Threads :
        /\ IsQuery(thr[t])
        /\ thr[t].pc = "done"
        /\ thr[t].resp.status = 400
        /\ thr[t].resp.names = <<"bogus", "nope">>
        /\ thr[t].query.filters # <<>>

\* C6: in every envelope, total is the number of rows of the table that
\* pass every filter, every returned row passes every filter, and the
\* count and the fetch statement carry the same WHERE clause with the
\* same filter values in the same order.
FiltersApplied ==
    \A t \in Threads :
        Answered(thr[t]) =>
            LET r == thr[t]
                m == MatchingRows(DATASETS[r.dataset_id], r.query.filters)
            IN  /\ r.resp.total = Cardinality(m)
                /\ Range(r.rowids) \subseteq m
                /\ r.resp.returned = Len(r.rowids)
                /\ Len(r.stmts) = 2
                /\ r.stmts[1].kind = "count"
                /\ r.stmts[2].kind = "fetch"
                /\ r.stmts[1].where = r.stmts[2].where
                /\ Len(r.stmts[1].where) = Len(r.query.filters)
                /\ r.stmts[1].params =
                       [k \in 1..Len(r.query.filters) |->
                           r.query.filters[k].value]
                /\ SubSeq(r.stmts[2].params, 1, Len(r.query.filters)) =
                       r.stmts[1].params

\* C6 witness: two filters of which exactly one row passes both.
FiltersWitness ==
    \E t \in Threads :
        /\ Answered(thr[t])
        /\ thr[t].query.filters = <<Filter("season", "eq", 2021),
                                    Filter("outs", "gte", 12)>>
        /\ thr[t].resp.total = 1
        /\ thr[t].rowids = <<1>>

\* C8: describe and query of a dataset_id that is not in the catalog end
\* with status 404 without touching the store, and the catalog stays what
\* the loader made of the directory.
UnknownDatasetNotFound ==
    /\ \A t \in Threads :
          (/\ thr[t].op = "describe" \/ IsQuery(thr[t])
           /\ thr[t].pc # "idle"
           /\ thr[t].dataset_id \notin DOMAIN DATASETS)
              => /\ thr[t].pc = "done"
                 /\ thr[t].resp.status = 404
                 /\ thr[t].stmts = <<>>
    /\ proc = "serving" => DATASETS = LoadDatasetRegistry(dir).registry

\* C8 witness: a query with filters and columns on an unknown dataset.
UnknownDatasetWitness ==
    \E t \in Threads :
        /\ IsQuery(thr[t])
        /\ thr[t].dataset_id = "does_not_exist"
        /\ thr[t].query.filters # <<>>
        /\ thr[t].query.columns # None
        /\ thr[t].resp.status = 404

\* C9 as claimed: list_datasets answers with the metadata record of every
\* dataset of the catalog, and describe_dataset of a dataset in the
\* catalog answers with that dataset's metadata record.
ListAndDescribeReturnMeta ==
    \A t \in Threads :
        /\ (thr[t].pc = "done" /\ thr[t].op = "list")
              => /\ thr[t].resp.status = 200
                 /\ thr[t].resp.body =
                        {DATASETS[d].meta : d \in DOMAIN DATASETS}
        /\ (/\ thr[t].pc = "done"
            /\ thr[t].op = "describe"
            /\ thr[t].dataset_id \in DOMAIN DATASETS)
              => /\ thr[t].resp.status = 200
                 /\ thr[t].resp.body = DATASETS[thr[t].dataset_id].meta


\* A descriptor file that the claim calls bad: it lacks dataset_id, schema
\* or table, or it gives the dataset no column.
LacksRequired(file) ==
    /\ file.t = "obj"
    /\ \/ "dataset_id" \notin DOMAIN file.obj
       \/ "schema" \notin DOMAIN file.obj
       \/ "table" \notin DOMAIN file.obj
       \/ "columns" \notin DOMAIN file.obj
       \/ file.obj.columns = JList(<<>>)

\* A directory on which loading has to fail.
MustNotLoad(directory) ==
    \/ ~directory.exists
    \/ directory.files = <<>>
    \/ \E i \in 1..Len(directory.files) : LacksRequired(directory.files[i])

\* C7: once the import has run, the process has crashed whenever the
\* directory is missing, holds no dataset, or holds a file without
\* dataset_id, schema, table or columns; the process serves only with a
\* catalog that holds the dataset of every file of the directory; and no
\* handler has run, nor is there any catalog, unless the process serves.
RegistryLoadsWhollyOrNot ==
    /\ (proc # "start" /\ MustNotLoad(dir)) => proc = "crashed"
    /\ proc = "serving" =>
          /\ DOMAIN DATASETS # {}
          /\ \A i \in 1..Len(dir.files) :
                /\ dir.files[i].t = "obj"
                /\ ~LacksRequired(dir.files[i])
                /\ FileError(dir.files[i]) = ""
                /\ dir.files[i].obj.dataset_id.str \in DOMAIN DATASETS
          /\ \A d \in DOMAIN DATASETS :
                /\ Len(DATASETS[d].meta.columns) >= 1
                /\ \E i \in 1..Len(dir.files) :
                       dir.files[i].obj.dataset_id = JStr(d)
    /\ proc # "serving" =>
          /\ DATASETS = EmptyDict
          /\ \A t \in Threads : thr[t].pc = "idle"

\* C7 witness: a directory whose first file is good and whose second file
\* has no column; the process has crashed on it.
RegistryLoadWitness ==
    /\ proc = "crashed"
    /\ dir.exists
    /\ Len(dir.files) = 2
    /\ FileError(dir.files[1]) = ""
    /\ dir.files[2].t = "obj"
    /\ "dataset_id" \in DOMAIN dir.files[2].obj
    /\ "columns" \in DOMAIN dir.files[2].obj
    /\ dir.files[2].obj.columns = JList(<<>>)

\* C5: a thread never holds two connections, it holds one only between
\* entering and leaving a with block, and every connection of every pool
\* is either idle in its pool or held by a thread inside such a block, so
\* that a thread whose statement has ended, well or badly, has given its
\* connection back.
ConnectionsScoped ==
    /\ \A t \in Threads :
          /\ Len(thr[t].held) <= 1
          /\ thr[t].pc \notin {"exec", "release"} => thr[t].held = <<>>
          /\ thr[t].pc \in {"exec", "release"} => Len(thr[t].held) = 1
    /\ \A p \in DOMAIN pools :
          pools[p] + Cardinality({t \in Threads : p \in Range(thr[t].held)})
              = PoolSize

\* C5 witness: a request whose fetch statement failed, after its count
\* statement succeeded, has been answered with 500, and the pool has its
\* connection back.
ConnectionsWitness ==
    \E t \in Threads :
        /\ thr[t].pc = "done"
        /\ thr[t].resp.status = 500
        /\ thr[t].resp.error = "OperationalError"
        /\ Len(thr[t].stmts) = 2
        /\ thr[t].held = <<>>
        /\ pools[thr[t].pool[1]] = PoolSize

\* C10 as claimed: at most one ConnectionPool is ever constructed, and
\* every thread draws its connections from that pool.
SinglePool ==
    /\ Cardinality(DOMAIN pools) <= 1
    /\ \A t \in Threads : thr[t].pool = None \/ thr[t].pool = Some(1)

\* The declared primary key tells every two rows of the table apart.
KeyIsUnique(entry) ==
    LET tbl == StoreTable(entry.schema.str, entry.table.str)
    IN  \A i, j \in 1..Len(tbl) :
            i # j => \/ KeyLess(tbl[i], tbl[j], entry.meta.primary_key)
                     \/ KeyLess(tbl[j], tbl[i], entry.meta.primary_key)

\* The pages a finished paging session collected are the matching rows,
\* each once, and their sizes add up to total.
PagesComplete ==
    LET e == DATASETS[session[1].dataset_id]
        m == MatchingRows(e, session[1].query.filters)
    IN  /\ acc.returned = session[1].total
        /\ acc.returned = Len(acc.rowids)
        /\ Len(acc.data) = Len(acc.rowids)
        /\ Range(acc.rowids) = m
        /\ Len(acc.rowids) = Cardinality(m)

\* The paging session has followed next_offset from 0 to null on a
\* dataset with a primary key.
SessionComplete ==
    /\ session # None
    /\ session[1].state = "complete"
    /\ session[1].dataset_id \in DOMAIN DATASETS
    /\ DATASETS[session[1].dataset_id].meta.primary_key # <<>>

\* C2 as claimed: on any dataset whose primary_key is not empty, following
\* next_offset from offset 0 until it is null collects every matching row
\* exactly once, and the returned counts add up to total.
PagingCompleteWithAnyKey == SessionComplete => PagesComplete

\* C2 as amended: the same, for a dataset whose primary_key columns tell
\* every two rows of the table apart.
PagingCompleteWithUniqueKey ==
    (SessionComplete /\ KeyIsUnique(DATASETS[session[1].dataset_id]))
        => PagesComplete

\* C2 witness: three pages of one row each, filtered, on the dataset
\* keyed by id.
PagingWitness ==
    /\ SessionComplete
    /\ session[1].dataset_id = "pitching_outings"
    /\ session[1].query.filters # <<>>
    /\ session[1].query.limit = 1
    /\ acc.calls = 3
    /\ acc.returned = 3

=============================================================================
